---------------------------- MODULE Spec2Model ----------------------------
(***************************************************************************)
(* Model of the diagram sanitizer of docucraft                              *)
(* (src/components/MermaidDiagram.tsx, sanitizeMermaid).                    *)
(*                                                                         *)
(* A JavaScript string is a sequence of one-character strings.  Every      *)
(* regular-expression pass of the source is an operator that scans the     *)
(* sequence the way the regular expression does (leftmost match, greedy    *)
(* quantifiers, non-overlapping global replacement).                        *)
(*                                                                         *)
(* The module also models the component that calls the sanitizer           *)
(* (MermaidDiagram, same file) and retryWithBackoff                        *)
(* (src/services/geminiService.ts).  Each has its own specification; the   *)
(* variables of the other two stay idle in it.                             *)
(***************************************************************************)
EXTENDS Integers, Sequences, FiniteSets, TLC

VARIABLES input, result, again, pc,
          chart, mounted, error, containerRef, innerHTML, pending, view,
          sanitizeCalls, renderCalls, escaped, changes, lastEvent, errorOf, raced,
          maxRetries, baseDelay, attempt, lastError, fnLog, delays, rpc, settled

sanitizerVars == <<input, result, again, pc>>
componentVars == <<chart, mounted, error, containerRef, innerHTML, pending, view,
                   sanitizeCalls, renderCalls, escaped, changes, lastEvent, errorOf, raced>>
retryVars == <<maxRetries, baseDelay, attempt, lastError, fnLog, delays, rpc, settled>>
vars == <<sanitizerVars, componentVars, retryVars>>

---------------------------------------------------------------------------
(* Characters and character classes                                        *)

Uppers == <<"A","B","C","D","E","F","G","H","I","J","K","L","M",
            "N","O","P","Q","R","S","T","U","V","W","X","Y","Z">>
Lowers == <<"a","b","c","d","e","f","g","h","i","j","k","l","m",
            "n","o","p","q","r","s","t","u","v","w","x","y","z">>
Digits == {"0","1","2","3","4","5","6","7","8","9"}

UpperSet == {Uppers[k] : k \in DOMAIN Uppers}
LowerSet == {Lowers[k] : k \in DOMAIN Lowers}

\* String.prototype.toLowerCase on one character
LowerOf == [c \in UpperSet |-> Lowers[CHOOSE k \in DOMAIN Uppers : Uppers[k] = c]]
Lower(c) == IF c \in UpperSet THEN LowerOf[c] ELSE c

\* [a-zA-Z0-9_]
IsIdChar(c) == c \in UpperSet \cup LowerSet \cup Digits \cup {"_"}

\* \s
IsWs(c) == c \in {" ", "\t", "\n"}

\* the backtick: the lexer of TLA+ accepts no backtick inside a string, so
\* this one character is written by name
Backtick == "BACKTICK"

\* the characters a string of the model may hold
Punct == {"-", ">", "=", ".", "[", "]", "(", ")", "{", "}", "\"", "'", Backtick, "?"}
Char == UpperSet \cup LowerSet \cup Digits \cup {"_", " ", "\t", "\n"} \cup Punct

IsString(s) == s \in Seq(Char)

---------------------------------------------------------------------------
(* String helpers                                                          *)

\* s.startsWith(lit, p - 1)
StartsWithAt(s, p, lit) ==
    /\ p + Len(lit) - 1 <= Len(s)
    /\ \A k \in 1..Len(lit) : s[p + k - 1] = lit[k]

\* the same, ignoring case (flag i); lit is lower case
StartsWithAtCI(s, p, lit) ==
    /\ p + Len(lit) - 1 <= Len(s)
    /\ \A k \in 1..Len(lit) : Lower(s[p + k - 1]) = lit[k]

\* length of the maximal run of whitespace starting at p
RECURSIVE WsRun(_, _)
WsRun(s, p) == IF p <= Len(s) /\ IsWs(s[p]) THEN 1 + WsRun(s, p + 1) ELSE 0

\* length of the maximal run of character c starting at p
RECURSIVE CharRun(_, _, _)
CharRun(s, p, c) == IF p <= Len(s) /\ s[p] = c THEN 1 + CharRun(s, p + 1, c) ELSE 0

\* length of the maximal run of characters other than newline starting at p
RECURSIVE LineRest(_, _)
LineRest(s, p) == IF p <= Len(s) /\ s[p] # "\n" THEN 1 + LineRest(s, p + 1) ELSE 0

\* String.prototype.trim
RECURSIVE TrimStart(_)
TrimStart(s) == IF s # <<>> /\ IsWs(Head(s)) THEN TrimStart(Tail(s)) ELSE s
RECURSIVE TrimEnd(_)
TrimEnd(s) == IF s # <<>> /\ IsWs(s[Len(s)]) THEN TrimEnd(SubSeq(s, 1, Len(s) - 1)) ELSE s
Trim(s) == TrimEnd(TrimStart(s))

\* String.prototype.toLowerCase
ToLowerCase(s) == [k \in 1..Len(s) |-> Lower(s[k])]

\* Array.prototype.join
RECURSIVE Join(_, _)
Join(parts, sep) ==
    IF parts = <<>> THEN <<>>
    ELSE IF Len(parts) = 1 THEN parts[1]
    ELSE parts[1] \o sep \o Join(Tail(parts), sep)

\* String.prototype.split('\n')
RECURSIVE SplitNl(_, _, _)
SplitNl(s, p, cur) ==
    IF p > Len(s) THEN <<cur>>
    ELSE IF s[p] = "\n" THEN <<cur>> \o SplitNl(s, p + 1, <<>>)
    ELSE SplitNl(s, p + 1, Append(cur, s[p]))

\* Array.prototype.filter(l => l): drops the empty strings
RECURSIVE FilterNonEmpty(_)
FilterNonEmpty(xs) ==
    IF xs = <<>> THEN <<>>
    ELSE IF Head(xs) # <<>> THEN <<Head(xs)>> \o FilterNonEmpty(Tail(xs))
    ELSE FilterNonEmpty(Tail(xs))

\* Array.prototype.map(l => l.trim())
MapTrim(xs) == [k \in 1..Len(xs) |-> Trim(xs[k])]

---------------------------------------------------------------------------
(* The regular expressions of sanitizeMermaid.  Each XxxMatch(s, p) is the *)
(* length of the match of the expression that starts at position p of s,   *)
(* 0 when the expression does not match there.                             *)

FenceMermaid == <<Backtick, Backtick, Backtick, "m", "e", "r", "m", "a", "i", "d">>
Fence        == <<Backtick, Backtick, Backtick>>
SubgraphKw   == <<"s", "u", "b", "g", "r", "a", "p", "h">>
EndKw        == <<"e", "n", "d">>
EndsubgraphKw == <<"e", "n", "d", "s", "u", "b", "g", "r", "a", "p", "h">>
GraphKw      == <<"g", "r", "a", "p", "h">>
FlowchartKw  == <<"f", "l", "o", "w", "c", "h", "a", "r", "t">>
SolidArrow   == <<"-", "-", ">">>
ThickArrow   == <<"=", "=", ">">>
DottedArrow  == <<"-", ".", "-", ">">>
OpenLink     == <<"-", "-", "-">>
LongThick    == <<"=", "=", "=", ">">>
GraphTD      == <<"g", "r", "a", "p", "h", " ", "T", "D">>

\* a literal pattern
LiteralMatch(s, p, lit) == IF StartsWithAt(s, p, lit) THEN Len(lit) ELSE 0

\* /subgraph\s+[^\n]*/gi
SubgraphMatch(s, p) ==
    IF ~StartsWithAtCI(s, p, SubgraphKw) THEN 0
    ELSE LET w == WsRun(s, p + 8) IN
         IF w = 0 THEN 0 ELSE 8 + w + LineRest(s, p + 8 + w)

\* ^ and $ under flag m
AtLineStart(s, p) == p = 1 \/ s[p - 1] = "\n"
AtLineEnd(s, p) == p = Len(s) + 1 \/ s[p] = "\n"

\* /^\s*end\s*$/gim: the trailing \s* gives back whitespace until $ holds
EndLineMatch(s, p) ==
    IF ~AtLineStart(s, p) THEN 0
    ELSE LET w == WsRun(s, p) IN
         IF ~StartsWithAtCI(s, p + w, EndKw) THEN 0
         ELSE LET q == p + w + 3
                  t == WsRun(s, q)
                  ks == {k \in 0..t : AtLineEnd(s, q + k)}
              IN IF ks = {} THEN 0
                 ELSE w + 3 + (CHOOSE k \in ks : \A j \in ks : j <= k)

\* /endsubgraph/gi
EndsubgraphMatch(s, p) == IF StartsWithAtCI(s, p, EndsubgraphKw) THEN 11 ELSE 0

\* one -+> of /(-+>)+/, one =+> of /(=+>)+/
RunThenGt(s, p, c) ==
    LET d == CharRun(s, p, c) IN
    IF d >= 1 /\ p + d <= Len(s) /\ s[p + d] = ">" THEN d + 1 ELSE 0

\* /(-+>)+/g and /(=+>)+/g
RECURSIVE ArrowRunMatch(_, _, _)
ArrowRunMatch(s, p, c) ==
    LET u == RunThenGt(s, p, c) IN
    IF u = 0 THEN 0 ELSE u + ArrowRunMatch(s, p + u, c)

\* one -+\.+-+> of /(-+\.+-+>)+/
DottedUnit(s, p) ==
    LET d1 == CharRun(s, p, "-")
        d2 == CharRun(s, p + d1, ".")
        d3 == CharRun(s, p + d1 + d2, "-")
        q  == p + d1 + d2 + d3
    IN IF d1 >= 1 /\ d2 >= 1 /\ d3 >= 1 /\ q <= Len(s) /\ s[q] = ">"
       THEN d1 + d2 + d3 + 1 ELSE 0

\* /(-+\.+-+>)+/g
RECURSIVE DottedRunMatch(_, _)
DottedRunMatch(s, p) ==
    LET u == DottedUnit(s, p) IN
    IF u = 0 THEN 0 ELSE u + DottedRunMatch(s, p + u)

\* /\s*lit\s*/g for a literal that starts with no whitespace
SpacedMatch(s, p, lit) ==
    LET w == WsRun(s, p) IN
    IF StartsWithAt(s, p + w, lit)
    THEN w + Len(lit) + WsRun(s, p + w + Len(lit)) ELSE 0

(* String.prototype.replace(/re/g, repl), one operator for each shape of     *)
(* expression: leftmost matches, left to right, never overlapping; what is *)
(* not matched is copied.  ^ looks at the text before p, replaced or not.  *)

\* s.replace(/lit/g, repl) for a literal
RECURSIVE ReplaceLiteral(_, _, _, _)
ReplaceLiteral(s, p, lit, repl) ==
    IF p > Len(s) THEN <<>>
    ELSE IF LiteralMatch(s, p, lit) > 0
         THEN repl \o ReplaceLiteral(s, p + Len(lit), lit, repl)
         ELSE <<s[p]>> \o ReplaceLiteral(s, p + 1, lit, repl)

\* s.replace(/subgraph\s+[^\n]*/gi, '')
RECURSIVE ReplaceSubgraph(_, _)
ReplaceSubgraph(s, p) ==
    IF p > Len(s) THEN <<>>
    ELSE IF SubgraphMatch(s, p) > 0
         THEN ReplaceSubgraph(s, p + SubgraphMatch(s, p))
         ELSE <<s[p]>> \o ReplaceSubgraph(s, p + 1)

\* s.replace(/^\s*end\s*$/gim, '')
RECURSIVE ReplaceEndLine(_, _)
ReplaceEndLine(s, p) ==
    IF p > Len(s) THEN <<>>
    ELSE IF EndLineMatch(s, p) > 0
         THEN ReplaceEndLine(s, p + EndLineMatch(s, p))
         ELSE <<s[p]>> \o ReplaceEndLine(s, p + 1)

\* s.replace(/endsubgraph/gi, '')
RECURSIVE ReplaceEndsubgraph(_, _)
ReplaceEndsubgraph(s, p) ==
    IF p > Len(s) THEN <<>>
    ELSE IF EndsubgraphMatch(s, p) > 0
         THEN ReplaceEndsubgraph(s, p + 11)
         ELSE <<s[p]>> \o ReplaceEndsubgraph(s, p + 1)

\* s.replace(/(c+>)+/g, repl), c one of - and =
RECURSIVE ReplaceArrowRun(_, _, _, _)
ReplaceArrowRun(s, p, c, repl) ==
    IF p > Len(s) THEN <<>>
    ELSE IF ArrowRunMatch(s, p, c) > 0
         THEN repl \o ReplaceArrowRun(s, p + ArrowRunMatch(s, p, c), c, repl)
         ELSE <<s[p]>> \o ReplaceArrowRun(s, p + 1, c, repl)

\* s.replace(/(-+\.+-+>)+/g, '-.->')
RECURSIVE ReplaceDottedRun(_, _)
ReplaceDottedRun(s, p) ==
    IF p > Len(s) THEN <<>>
    ELSE IF DottedRunMatch(s, p) > 0
         THEN DottedArrow \o ReplaceDottedRun(s, p + DottedRunMatch(s, p))
         ELSE <<s[p]>> \o ReplaceDottedRun(s, p + 1)

\* line.replace(/\s*lit\s*/g, repl)
RECURSIVE ReplaceSpaced(_, _, _, _)
ReplaceSpaced(s, p, lit, repl) ==
    IF p > Len(s) THEN <<>>
    ELSE IF SpacedMatch(s, p, lit) > 0
         THEN repl \o ReplaceSpaced(s, p + SpacedMatch(s, p, lit), lit, repl)
         ELSE <<s[p]>> \o ReplaceSpaced(s, p + 1, lit, repl)

---------------------------------------------------------------------------
(* sanitizeMermaid, pass by pass                                           *)

\* JavaScript's undefined where a string is expected, and a TypeError thrown
\* out of the function: neither is a string
Undefined == <<"undefined">>
TypeError == <<"TypeError">>

\* input.replace(/```mermaid/g, '').replace(/```/g, '').trim()
StripFences(s) == Trim(ReplaceLiteral(ReplaceLiteral(s, 1, FenceMermaid, <<>>), 1, Fence, <<>>))

\* the three removals of grouping keywords
RemoveSubgraph(s) == ReplaceSubgraph(s, 1)
RemoveEndLines(s) == ReplaceEndLine(s, 1)
RemoveEndsubgraph(s) == ReplaceEndsubgraph(s, 1)
RemoveGrouping(s) == RemoveEndsubgraph(RemoveEndLines(RemoveSubgraph(s)))

\* the three collapses of malformed arrows
CollapseSolid(s) == ReplaceArrowRun(s, 1, "-", SolidArrow)
CollapseThick(s) == ReplaceArrowRun(s, 1, "=", ThickArrow)
CollapseDotted(s) == ReplaceDottedRun(s, 1)

\* a slip: the dotted family is collapsed first, the solid one last
CollapseArrowsSolidLast(s) == CollapseSolid(CollapseThick(CollapseDotted(s)))

CollapseArrows(s) == CollapseDotted(CollapseThick(CollapseSolid(s)))

\* s.split('\n').map(l => l.trim()).filter(l => l)
SplitLines(s) == FilterNonEmpty(MapTrim(SplitNl(s, 1, <<>>)))

\* lines[0]
ArrayAt(arr, k) == IF k + 1 \in DOMAIN arr THEN arr[k + 1] ELSE Undefined

\* a slip: lines[0].toLowerCase() without the optional chain
ToLowerCaseUnchained(x) == IF x = Undefined THEN TypeError ELSE ToLowerCase(x)

\* x?.toLowerCase(): the optional chain stops at undefined and yields it
OptToLowerCase(x) == IF x = Undefined THEN Undefined ELSE ToLowerCase(x)

\* the truth of l.match(/^(graph|flowchart)\s+/), l the lowered first line or
\* the undefined the optional chain yielded
HeaderMatch(l) ==
    /\ l # Undefined
    /\ \/ StartsWithAt(l, 1, GraphKw) /\ WsRun(l, 6) >= 1
       \/ StartsWithAt(l, 1, FlowchartKw) /\ WsRun(l, 10) >= 1

\* a slip: no defensive re-check of the grouping keywords
SkipLineNever(line) == FALSE

\* /^(subgraph|end|endsubgraph)/i.test(line)
SkipLine(line) ==
    \/ StartsWithAtCI(line, 1, SubgraphKw)
    \/ StartsWithAtCI(line, 1, EndKw)
    \/ StartsWithAtCI(line, 1, EndsubgraphKw)

\* the four replacements that put one space on each side of an arrow
Spaced(arrow) == <<" ">> \o arrow \o <<" ">>
SpaceSolid(line)  == ReplaceSpaced(line, 1, SolidArrow, Spaced(SolidArrow))
SpaceThick(line)  == ReplaceSpaced(line, 1, LongThick, Spaced(ThickArrow))
SpaceDotted(line) == ReplaceSpaced(line, 1, DottedArrow, Spaced(DottedArrow))
SpaceOpen(line)   == ReplaceSpaced(line, 1, OpenLink, Spaced(OpenLink))
SpaceArrows(line) == SpaceOpen(SpaceDotted(SpaceThick(SpaceSolid(line))))

\* the alternatives of (-->|==>|-\.->|---), in their order
Arrows == <<SolidArrow, ThickArrow, DottedArrow, OpenLink>>

\* the arrow that starts at p, <<>> when none does
ArrowAt(s, p) ==
    LET hits == {k \in DOMAIN Arrows : StartsWithAt(s, p, Arrows[k])} IN
    IF hits = {} THEN <<>> ELSE Arrows[CHOOSE k \in hits : \A j \in hits : k <= j]

\* /\s+(-->|==>|-\.->|---)\s+/ at p: <<length of the match, the arrow>>
SeparatorWith(s, p, w, a) ==
    IF w >= 1 /\ a # <<>> /\ WsRun(s, p + w + Len(a)) >= 1
    THEN <<w + Len(a) + WsRun(s, p + w + Len(a)), a>> ELSE <<0, <<>>>>
SeparatorFrom(s, p, w) == SeparatorWith(s, p, w, ArrowAt(s, p + w))
SeparatorAt(s, p) == SeparatorFrom(s, p, WsRun(s, p))

\* line.split(/\s+(-->|==>|-\.->|---)\s+/g): the pieces between the
\* separators, each separator's arrow kept as a piece of its own
RECURSIVE SplitFrom(_, _, _)
SplitFrom(s, p, cur) ==
    IF p > Len(s) THEN <<cur>>
    ELSE LET m == SeparatorAt(s, p) IN
         IF m[1] > 0 THEN <<cur, m[2]>> \o SplitFrom(s, p + m[1], <<>>)
         ELSE SplitFrom(s, p + 1, Append(cur, s[p]))

SplitParts(line) == SplitFrom(line, 1, <<>>)

\* /^(-->|==>|-\.->|---)$/.test(trimmed)
IsArrow(t) == \E k \in DOMAIN Arrows : t = Arrows[k]

\* /^[a-zA-Z0-9_]+$/.test(trimmed)
IsBareId(t) == t # <<>> /\ \A k \in DOMAIN t : IsIdChar(t[k])

\* length of the maximal run of [a-zA-Z0-9_] starting at p
RECURSIVE IdRun(_, _)
IdRun(s, p) == IF p <= Len(s) /\ IsIdChar(s[p]) THEN 1 + IdRun(s, p + 1) ELSE 0

Openers == {"[", "(", "{"}
Closers == {"]", ")", "}"}

\* trimmed.match(/^([a-zA-Z0-9_]+)\s*[\[\(\{](.+?)[\]\)\}]\s*$/): the string
\* is trimmed, so the closing delimiter is its last character, and the lazy
\* label is what stands between the opening delimiter and it
NodeMatch(t) ==
    LET n == IdRun(t, 1)
        w == WsRun(t, n + 1)
        o == n + w + 1
    IN IF /\ n >= 1
          /\ o <= Len(t) /\ t[o] \in Openers
          /\ Len(t) - o >= 2
          /\ t[Len(t)] \in Closers
          /\ \A k \in (o + 1)..(Len(t) - 1) : t[k] # "\n"
       THEN [ok |-> TRUE, id |-> SubSeq(t, 1, n), label |-> SubSeq(t, o + 1, Len(t) - 1)]
       ELSE [ok |-> FALSE, id |-> <<>>, label |-> <<>>]

\* String.prototype.replace(/[class]/g, ''): the characters Drop holds go
RECURSIVE RemoveChars(_, _)
RemoveChars(s, drop) ==
    IF s = <<>> THEN <<>>
    ELSE IF Head(s) \in drop THEN RemoveChars(Tail(s), drop)
    ELSE <<Head(s)>> \o RemoveChars(Tail(s), drop)

\* [a-zA-Z0-9\s-]
IsLabelChar(c) == c \in UpperSet \cup LowerSet \cup Digits \cup {" ", "\t", "\n", "-"}

\* a slip: the label is trimmed and not cleaned
CleanLabelTrimOnly(label) == Trim(label)

\* the label cleaning of a matched node
CleanLabel(label) ==
    LET a == RemoveChars(label, {"\"", "'", Backtick})
        b == RemoveChars(a, {"[", "]", "(", ")", "{", "}"})
        c == RemoveChars(b, {x \in Char : ~IsLabelChar(x)})
    IN Trim(c)

\* the callback of parts.map: an arrow is kept, a node is rewritten as
\* id["label"], a bare identifier is kept, anything else becomes ''
\* `${id}["${label}"]`
EmitNode(nodeMatch) ==
    nodeMatch.id \o <<"[", "\"">> \o CleanLabel(nodeMatch.label) \o <<"\"", "]">>

\* a slip: what is neither arrow nor node is returned as it stands
SanitizeTrimmedKeepAll(trimmed, nodeMatch) ==
    IF IsArrow(trimmed) THEN trimmed
    ELSE IF nodeMatch.ok THEN EmitNode(nodeMatch)
    ELSE trimmed

SanitizeTrimmed(trimmed, nodeMatch) ==
    IF IsArrow(trimmed) THEN trimmed
    ELSE IF nodeMatch.ok THEN EmitNode(nodeMatch)
    ELSE IF IsBareId(trimmed) THEN trimmed
    ELSE <<>>

SanitizeTrimmedPart(trimmed) == SanitizeTrimmed(trimmed, NodeMatch(trimmed))

SanitizePart(part) == SanitizeTrimmedPart(Trim(part))

\* parts.map(...).filter(p => p)
MapSanitizePart(parts) == [k \in 1..Len(parts) |-> SanitizePart(parts[k])]
SanitizedParts(line) == FilterNonEmpty(MapSanitizePart(SplitParts(SpaceArrows(line))))

\* whether a line's parts are pushed to processedLines
KeepParts(sanitizedParts) == Len(sanitizedParts) > 0

\* one turn of the loop over the lines: what it pushes to processedLines
PushParts(sanitizedParts) ==
    IF KeepParts(sanitizedParts) THEN <<Join(sanitizedParts, <<" ">>)>> ELSE <<>>

ProcessLine(line) == IF SkipLine(line) THEN <<>> ELSE PushParts(SanitizedParts(line))

\* a slip: each line's output is put in front of what is there (unshift)
RECURSIVE ProcessLinesUnshift(_, _)
ProcessLinesUnshift(lines, i) ==
    IF i >= Len(lines) THEN <<>>
    ELSE ProcessLinesUnshift(lines, i + 1) \o ProcessLine(lines[i + 1])

\* the loop over the lines from index i on
RECURSIVE ProcessLines(_, _)
ProcessLines(lines, i) ==
    IF i >= Len(lines) THEN <<>>
    ELSE ProcessLine(lines[i + 1]) \o ProcessLines(lines, i + 1)

\* a slip: the first line is pushed as the header whatever the test said
HeaderLineUntested(lines, hasHeader) == IF lines # <<>> THEN lines[1] ELSE GraphTD

\* the header pushed first: the first line as it stands, or 'graph TD'
HeaderLine(lines, hasHeader) == IF hasHeader THEN lines[1] ELSE GraphTD

\* what sanitizeMermaid returns for s, the input with fences, grouping
\* keywords and malformed arrows already rewritten
ProcessedLines(lines, hasHeader) ==
    <<HeaderLine(lines, hasHeader)>> \o ProcessLines(lines, IF hasHeader THEN 1 ELSE 0)

\* the header test and what follows it; a TypeError thrown by the test ends
\* the function
FromHeaderTest(lines, lowered) ==
    IF lowered = TypeError THEN TypeError
    ELSE Join(ProcessedLines(lines, HeaderMatch(lowered)), <<"\n">>)

FromLines(lines) == FromHeaderTest(lines, OptToLowerCase(ArrayAt(lines, 0)))

SanitizeBody(s) == FromLines(SplitLines(s))

\* a slip: the guard for the empty input is missing
IsFalsyNever(s) == FALSE

\* if (!input) return '': the empty string and undefined are falsy
IsFalsy(s) == s = <<>> \/ s = Undefined

sanitizeMermaid(inp) ==
    IF IsFalsy(inp) THEN <<>>
    ELSE SanitizeBody(CollapseArrows(RemoveGrouping(StripFences(inp))))

---------------------------------------------------------------------------
(* The inputs                                                              *)

MaxTokens == 3
MaxLabel == 2
MaxDashes == 4
MaxGts == 2
MaxCanonLines == 2

RECURSIVE Flatten(_)
Flatten(ts) == IF ts = <<>> THEN <<>> ELSE Head(ts) \o Flatten(Tail(ts))

\* free text: up to MaxTokens lexemes, well-formed or not, in any order
Tokens == { <<"A">>, <<" ">>, <<"\n">>, <<"-">>, <<">">>, <<"[">>, <<"]">>, <<"\"">>,
            SolidArrow, GraphKw \o <<" ">>, EndKw, SubgraphKw }
FreeInputs == { Flatten(ts) : ts \in UNION { [1..n -> Tokens] : n \in 0..MaxTokens } }

\* one node: an identifier, an opening delimiter, up to MaxLabel label
\* characters, a closing delimiter
LabelChars == { "x", " ", "-", "\"", ">", "]" }
NodeInputs ==
    { <<"N">> \o <<o>> \o l \o <<c>> :
        o \in Openers, c \in Closers,
        l \in UNION { [1..n -> LabelChars] : n \in 0..MaxLabel } }

\* one edge with a garbled solid arrow: A, dashes, one or more '>', B
Repeat(c, n) == [k \in 1..n |-> c]
GarbledInputs ==
    { <<"A", " ">> \o Repeat("-", d) \o Repeat(">", g) \o <<" ", "B">> :
        d \in 1..MaxDashes, g \in 1..MaxGts }

\* diagrams of the canonical dialect: 'graph TD', then up to MaxCanonLines
\* lines, each one labelled node or one edge between two nodes
NodeDone == <<"E", "n", "d", "[", "\"", "D", "o", "n", "e", "\"", "]">>
NodeXY   == <<"B", "[", "\"", "x", " ", "y", "\"", "]">>
CanonLines ==
    { NodeDone, NodeXY } \cup
    { a \o <<" ">> \o c \o <<" ">> \o b :
        a \in { <<"A">>, NodeDone }, c \in { SolidArrow, ThickArrow, DottedArrow },
        b \in { <<"A">>, NodeXY } }
CanonInputs ==
    { Join(<<GraphTD>> \o ls, <<"\n">>) :
        ls \in UNION { [1..n -> CanonLines] : n \in 0..MaxCanonLines } }

\* spec.md, scenario 1
ScenarioHeaderEdge == <<"g", "r", "a", "p", "h", " ", "T", "D", "\n", "A", "[", "S", "t", "a", "r", "t", "]", "-", "-", ">", "B", "[", "E", "n", "d", "]">>
\* spec.md, scenario 2
ScenarioSubgraph == <<"s", "u", "b", "g", "r", "a", "p", "h", " ", "X", "\n", "A", "-", "-", ">", "B", "\n", "e", "n", "d">>
\* spec.md, scenario 3
ScenarioDangling == <<"A", " ", "-", "-", ">">>
\* spec.md, scenario 4
ScenarioCircle == <<"C", "(", "(", "C", "i", "r", "c", "l", "e", " ", "L", "a", "b", "e", "l", ")", ")">>
\* spec.md, scenario 6
ScenarioQuote == <<"A", "[", "\"", "S", "a", "y", " ", "\"", "h", "i", "\"", "\"", "]">>
\* an edge with no source
ScenarioNoSource == <<"-", "-", ">", " ", "B">>
\* an edge through an unclassifiable token
ScenarioGarbageMiddle == <<"A", " ", "-", "-", ">", " ", "?", "?", " ", "-", "-", ">", " ", "B">>
\* another header form, a thick arrow
ScenarioFlowchart == <<"f", "l", "o", "w", "c", "h", "a", "r", "t", " ", "L", "R", "\n", "A", " ", "=", "=", ">", " ", "B">>
\* a fenced diagram, a dotted arrow
ScenarioFenced == <<Backtick, Backtick, Backtick, "m", "e", "r", "m", "a", "i", "d", "\n", "g", "r", "a", "p", "h", " ", "T", "D", "\n", "A", "-", ".", "-", ">", "B", "\n", Backtick, Backtick, Backtick>>
\* an open link
ScenarioOpenLink == <<"A", " ", "-", "-", "-", " ", "B">>
\* an identifier that begins with end
ScenarioEndpoint == <<"E", "n", "d", "p", "o", "i", "n", "t", " ", "-", "-", ">", " ", "B">>
\* a label that cleans to a grouping keyword
ScenarioLabelKeyword == <<"A", "[", "s", "u", "b", ".", "g", "r", "a", "p", "h", " ", "b", "]">>
ScenarioInputs == { ScenarioHeaderEdge, ScenarioSubgraph, ScenarioDangling, ScenarioCircle, ScenarioQuote, ScenarioNoSource, ScenarioGarbageMiddle, ScenarioFlowchart, ScenarioFenced, ScenarioOpenLink, ScenarioEndpoint, ScenarioLabelKeyword }

\* a header, then one edge between two bracket-labelled nodes, the arrow
\* written without spaces: graph TD, id1[L1]-->id2[L2]
EdgeIds == { <<"A">>, <<"B", "2">>, <<"E", "n", "d">> }
EdgeLabels == { <<"S", "t", "a", "r", "t">>, <<"E", "n", "d">>, <<"a", " ", "b">>, <<"7">> }
BracketNode(id, l) == id \o <<"[">> \o l \o <<"]">>
HeaderEdge(a, l1, b, l2) ==
    GraphTD \o <<"\n">> \o BracketNode(a, l1) \o SolidArrow \o BracketNode(b, l2)
LabelledEdgeInputs ==
    { HeaderEdge(a, l1, b, l2) : a \in EdgeIds, b \in EdgeIds, l1 \in EdgeLabels, l2 \in EdgeLabels }

\* valid edges between a grouping-begin line and its end line
MaxGroupedLines == 2
Endpoint == <<"E", "n", "d", "p", "o", "i", "n", "t">>
GroupedEdge(a, arrow, b, gap) == [from |-> a, arrow |-> arrow, to |-> b, gap |-> gap]
GroupedEdges ==
    { GroupedEdge(a, SolidArrow, <<"B">>, g) : a \in { <<"A">>, Endpoint }, g \in { <<>>, <<" ">> } }
    \cup { GroupedEdge(a, c, <<"B">>, <<" ">>) :
             a \in { <<"A">>, Endpoint }, c \in { ThickArrow, DottedArrow } }
EdgeText(e) == e.from \o e.gap \o e.arrow \o e.gap \o e.to
GroupLabels == { <<"X">>, <<"G", "r", "o", "u", "p", " ", "1">> }
Grouped(label, es) ==
    Join(<<SubgraphKw \o <<" ">> \o label>> \o [k \in DOMAIN es |-> EdgeText(es[k])] \o <<EndKw>>,
         <<"\n">>)
GroupedEdgeSeqs == UNION { [1..n -> GroupedEdges] : n \in 1..MaxGroupedLines }
GroupedInputs == { Grouped(l, es) : l \in GroupLabels, es \in GroupedEdgeSeqs }

\* one node in each shape: [l], (l), {l}, ((l)), [[l]], {{l}}, ([l])
Shapes == { <<<<"[">>, <<"]">>>>, <<<<"(">>, <<")">>>>, <<<<"{">>, <<"}">>>>,
            <<<<"(", "(">>, <<")", ")">>>>, <<<<"[", "[">>, <<"]", "]">>>>,
            <<<<"{", "{">>, <<"}", "}">>>>, <<<<"(", "[">>, <<"]", ")">>>> }
ShapeIds == { <<"C">>, <<"n", "_", "1">>, <<"E", "n", "d">> }
ShapeLabels == { <<"C", "i", "r", "c", "l", "e", " ", "L", "a", "b", "e", "l">>, <<"x">> }
ShapedNode(id, sh, l) == id \o sh[1] \o l \o sh[2]
ShapeInputs == { ShapedNode(id, sh, l) : id \in ShapeIds, sh \in Shapes, l \in ShapeLabels }

\* an edge 'A <c> B', <c> a run of arrows of one family: one arrow, two
\* arrows, or up to MaxRunLen times the same arrow
MaxRunLen == 3
MaxDotted == 2
SolidUnits == { Repeat("-", d) \o <<">">> : d \in 1..MaxDashes }
ThickUnits == { Repeat("=", d) \o <<">">> : d \in 1..MaxDashes }
DottedUnits ==
    { Repeat("-", d1) \o Repeat(".", k) \o Repeat("-", d2) \o <<">">> :
        d1 \in 1..MaxDotted, k \in 1..MaxDotted, d2 \in 1..MaxDotted }
RunsOf(units) ==
    { u \o v : u \in units, v \in units }
    \cup { Flatten([k \in 1..n |-> u]) : u \in units, n \in 1..MaxRunLen }
EdgeWith(c) == <<"A", " ">> \o c \o <<" ", "B">>
ConnectorRunInputs ==
    { EdgeWith(c) : c \in RunsOf(SolidUnits) \cup RunsOf(ThickUnits) \cup RunsOf(DottedUnits) }

\* one edge between two valid nodes, the connector with no, one or more
\* whitespace characters on either side
Gaps == { <<>>, <<" ">>, <<" ", " ">>, <<"\t">> }
SpacedEdge(a, gl, c, gr, b) == a \o gl \o c \o gr \o b
SpacingInputs ==
    { SpacedEdge(a, gl, c, gr, <<"B">>) :
        a \in { <<"A">>, NodeXY }, gl \in Gaps, gr \in Gaps,
        c \in { SolidArrow, ThickArrow, DottedArrow } }

\* a diagram text between an opening fence, with or without a language
\* tag, and a closing fence
TagText == <<"t", "e", "x", "t">>
FenceTags == { <<>>, <<"m", "e", "r", "m", "a", "i", "d">>, TagText }
FenceBodies ==
    { <<>>, <<"A", "-", "-", ">", "B">>, ScenarioHeaderEdge, ScenarioQuote, ScenarioSubgraph }
Fenced(tag, d) == Fence \o tag \o <<"\n">> \o d \o <<"\n">> \o Fence
FencedInputs == { Fenced(tag, d) : tag \in FenceTags, d \in FenceBodies }

\* valid lines whose first identifier begins with the letters of a grouping
\* keyword, alone or under a header
Subgraphs == <<"s", "u", "b", "g", "r", "a", "p", "h", "s">>
KeywordPrefixLines ==
    { ScenarioEndpoint, NodeDone, Subgraphs \o <<" ">> \o SolidArrow \o <<" ", "B">> }
UnderHeader(l) == GraphTD \o <<"\n">> \o l
KeywordPrefixInputs == KeywordPrefixLines \cup { UnderHeader(l) : l \in KeywordPrefixLines }

\* one node on a line of its own, alone or after a dangling edge
BareIds == { <<"A">>, <<"n", "_", "1">>, Endpoint }
AfterDangling(l) == ScenarioDangling \o <<"\n">> \o l
StandaloneInputs ==
    BareIds \cup { AfterDangling(l) : l \in BareIds \cup ShapeInputs }

\* a valid line after a grouping-begin line, the begin line with a label,
\* with none, or with trailing whitespace only
BeginLines == { SubgraphKw \o <<" ", "X">>, SubgraphKw, SubgraphKw \o <<" ">> }
FollowerLines == { <<"A", " ">> \o SolidArrow \o <<" ", "B">>, NodeXY }
AfterBegin(b, l) == b \o <<"\n">> \o l \o <<"\n">> \o EndKw
AfterBeginInputs == { AfterBegin(b, l) : b \in BeginLines, l \in FollowerLines }

Inputs ==
    FreeInputs \cup NodeInputs \cup GarbledInputs \cup CanonInputs \cup ScenarioInputs
    \cup LabelledEdgeInputs \cup GroupedInputs \cup ShapeInputs \cup ConnectorRunInputs
    \cup SpacingInputs \cup FencedInputs \cup KeywordPrefixInputs \cup StandaloneInputs
    \cup AfterBeginInputs

---------------------------------------------------------------------------
(* The component MermaidDiagram: its prop chart, its state error, its ref  *)
(* containerRef, the render calls in flight and what it shows.  Kept with  *)
(* them, as history: the calls made so far, the last thing that happened,  *)
(* the chart whose failure set error (errorOf), and whether a render was   *)
(* in flight when chart last changed (raced)                               *)

Null == <<"null">>
Div == <<"div">>

\* the two messages handed to setError
RenderFault == <<"The synthesized schematic contains non-standard node relationships. Please use the Refinement tool to 'simplify the topology'.">>
SetupFault == <<"The visualization component failed to initialize the logic schematic.">>

\* a slip: the component renders a panel whatever chart is
ShowsNothingNever(c) == FALSE

\* if (!chart) return null
ShowsNothing(c) == IsFalsy(c)

NoPanel == [panel |-> "none", message |-> Null, debug |-> Null]
DiagramPanel == [panel |-> "diagram", message |-> Null, debug |-> Null]

\* a slip: the error panel shows chart as it was given
ErrorPanelRaw(c, e) == [panel |-> "error", message |-> e, debug |-> c]

\* the error panel: {error} and {sanitizeMermaid(chart)}
ErrorPanel(c, e) == [panel |-> "error", message |-> e, debug |-> sanitizeMermaid(c)]

\* what the component returns for prop chart c and state error e
Render(c, e) ==
    IF ShowsNothing(c) THEN NoPanel
    ELSE IF e # Null THEN ErrorPanel(c, e)
    ELSE DiagramPanel

\* containerRef.current once the element is committed: the container div is
\* part of the diagram panel only
RefOf(v) == IF v.panel = "diagram" THEN Div ELSE Null

\* the container div's content after a commit: a div that stays keeps its
\* content, a new one is empty
ContentAfter(oldRef, newRef, content) ==
    IF oldRef = Div /\ newRef = Div THEN content ELSE <<>>

\* the calls of sanitizeMermaid a render makes on top of those in calls
RenderSanitizes(calls, v, c) == IF v.panel = "error" THEN calls \cup {c} ELSE calls

\* result.svg for a diagram text
Svg(text) == <<"svg">> \o text

\* if (containerRef.current && chart)
EffectGuard(ref, c) == ref = Div /\ ~IsFalsy(c)

\* a slip: no try/catch around the setup, the exception leaves the effect
SetupUncaught == [error |-> Null, escaped |-> TRUE]

\* catch (e) { setError("The visualization component failed ...") }
SetupCaught == [error |-> SetupFault, escaped |-> FALSE]

\* a slip: no .catch on the promise, the rejection is unhandled
RejectionUncaught(e) == [error |-> e, escaped |-> TRUE]

\* .catch((err) => { setError("The synthesized schematic ...") })
RejectionCaught(e) == [error |-> RenderFault, escaped |-> FALSE]

\* what the rendering engine may do while the effect sets the render up:
\* mermaid.initialize throws, mermaid.render throws, or render returns a promise
SetupOutcomes == { "initializeThrows", "renderThrows", "promise" }

\* one call of mermaid.render: the chart it was made for, the text it got
RenderCall(c, text) == [chart |-> c, text |-> text]

\* a sequence without its i-th element
RemoveAt(s, i) == [k \in 1..(Len(s) - 1) |-> IF k < i THEN s[k] ELSE s[k + 1]]
---------------------------------------------------------------------------
(* The component's steps.  One step is one turn of the event loop: a       *)
(* render with its commit and its effect, or one callback of a promise     *)

MaxChanges == 2

\* the texts the parent passes as chart: absent, empty, and diagrams
Charts == { Undefined, <<>>, ScenarioHeaderEdge, ScenarioFenced, ScenarioDangling, ScenarioQuote }

ComponentIdle ==
    /\ chart = Undefined
    /\ mounted = FALSE
    /\ error = Null
    /\ containerRef = Null
    /\ innerHTML = <<>>
    /\ pending = <<>>
    /\ view = NoPanel
    /\ sanitizeCalls = {}
    /\ renderCalls = {}
    /\ escaped = FALSE
    /\ changes = 0
    /\ lastEvent = "none"
    /\ errorOf = Null
    /\ raced = FALSE

\* the render is committed and the effect's guard is false: nothing else runs
EffectSkipped(c, v) ==
    /\ view' = v
    /\ containerRef' = RefOf(v)
    /\ innerHTML' = ContentAfter(containerRef, RefOf(v), innerHTML)
    /\ sanitizeCalls' = RenderSanitizes(sanitizeCalls, v, c)
    /\ lastEvent' = "effectSkipped"
    /\ UNCHANGED <<error, pending, renderCalls, escaped, errorOf>>

\* the setup threw; caught is what the catch clause made of it, v the
\* render that follows, calls the engine's calls so far
SetupThrew(c, caught, v, calls) ==
    /\ error' = caught.error
    /\ escaped' = (escaped \/ caught.escaped)
    /\ view' = v
    /\ containerRef' = RefOf(v)
    /\ innerHTML' = <<>>
    /\ sanitizeCalls' = RenderSanitizes(sanitizeCalls \cup {c}, v, c)
    /\ renderCalls' = calls
    /\ lastEvent' = "setupThrew"
    /\ errorOf' = c
    /\ UNCHANGED pending

SetupThrows(c, caught, calls) == SetupThrew(c, caught, Render(c, caught.error), calls)

\* if (!cleanChart) return
ReturnsEarly(c) ==
    /\ error' = Null
    /\ view' = DiagramPanel
    /\ containerRef' = Div
    /\ innerHTML' = ContentAfter(containerRef, Div, innerHTML)
    /\ sanitizeCalls' = sanitizeCalls \cup {c}
    /\ lastEvent' = "returnedEarly"
    /\ errorOf' = Null
    /\ UNCHANGED <<pending, renderCalls, escaped>>

\* initialize, innerHTML = '', render(id, cleanChart) with its then and catch
RenderStarted(c, clean) ==
    /\ error' = Null
    /\ view' = DiagramPanel
    /\ containerRef' = Div
    /\ innerHTML' = <<>>
    /\ sanitizeCalls' = sanitizeCalls \cup {c}
    /\ renderCalls' = renderCalls \cup {RenderCall(c, clean)}
    /\ pending' = Append(pending, RenderCall(c, clean))
    /\ lastEvent' = "renderStarted"
    /\ errorOf' = Null
    /\ UNCHANGED escaped

\* the body of the effect, cleanChart being clean
EffectBody(c, clean) ==
    IF clean = TypeError THEN SetupThrows(c, SetupCaught, renderCalls)
    ELSE IF IsFalsy(clean) THEN ReturnsEarly(c)
    ELSE \E o \in SetupOutcomes :
            \/ o = "initializeThrows" /\ SetupThrows(c, SetupCaught, renderCalls)
            \/ o = "renderThrows"
                 /\ SetupThrows(c, SetupCaught, renderCalls \cup {RenderCall(c, clean)})
            \/ o = "promise" /\ RenderStarted(c, clean)

\* a render with prop c, its commit, and the effect of [chart]
RenderAndEffect(c, v) ==
    /\ chart' = c
    /\ IF EffectGuard(RefOf(v), c) THEN EffectBody(c, sanitizeMermaid(c))
       ELSE EffectSkipped(c, v)

\* the parent renders <MermaidDiagram chart={c} /> for the first time
Mount ==
    /\ ~mounted
    /\ \E c \in Charts : RenderAndEffect(c, Render(c, error))
    /\ mounted' = TRUE
    /\ raced' = FALSE
    /\ UNCHANGED changes

\* the parent passes another chart
SetChart ==
    /\ mounted
    /\ changes < MaxChanges
    /\ \E c \in Charts \ {chart} : RenderAndEffect(c, Render(c, error))
    /\ changes' = changes + 1
    /\ raced' = (pending # <<>>)
    /\ UNCHANGED mounted

\* the promise of a render call is fulfilled: the then callback
RenderFulfils ==
    /\ \E i \in DOMAIN pending :
        /\ pending' = RemoveAt(pending, i)
        /\ innerHTML' = IF containerRef # Null THEN Svg(pending[i].text) ELSE innerHTML
    /\ lastEvent' = "fulfilled"
    /\ UNCHANGED <<chart, mounted, error, containerRef, view, sanitizeCalls, renderCalls,
                   escaped, changes, errorOf, raced>>

\* the state after the catch callback made caught of a rejection, v being
\* the render that follows
Rejected(caught, v) ==
    /\ error' = caught.error
    /\ escaped' = (escaped \/ caught.escaped)
    /\ view' = v
    /\ containerRef' = RefOf(v)
    /\ innerHTML' = ContentAfter(containerRef, RefOf(v), innerHTML)
    /\ sanitizeCalls' = RenderSanitizes(sanitizeCalls, v, chart)

RejectedWith(caught) == Rejected(caught, Render(chart, caught.error))

\* the promise of a render call is rejected: the catch callback
RenderRejects ==
    /\ \E i \in DOMAIN pending :
        /\ pending' = RemoveAt(pending, i)
        /\ errorOf' = pending[i].chart
    /\ RejectedWith(RejectionCaught(error))
    /\ lastEvent' = "rejected"
    /\ UNCHANGED <<chart, mounted, renderCalls, changes, raced>>
---------------------------------------------------------------------------
(* retryWithBackoff (src/services/geminiService.ts): fn is called, awaited, *)
(* and called again after a wait when it failed on a rate limit            *)

DefaultMaxRetries == 3
DefaultBaseDelay == 1000

\* s.includes(sub)
Includes(s, sub) == \E p \in 1..(Len(s) - Len(sub) + 1) : StartsWithAt(s, p, sub)

Code429 == <<"4", "2", "9">>
TooManyRequests == <<"T", "o", "o", " ", "M", "a", "n", "y", " ", "R", "e", "q", "u", "e", "s", "t", "s">>
UnknownError == <<"U", "n", "k", "n", "o", "w", "n", " ", "e", "r", "r", "o", "r">>
FailedAfterText == <<"F", "a", "i", "l", "e", "d", " ", "a", "f", "t", "e", "r", " ">>
AttemptsText == <<" ", "a", "t", "t", "e", "m", "p", "t", "s", ":", " ">>

\* a thrown value: null or undefined, or an object with or without a message
Thrown(m) == [nullish |-> FALSE, message |-> m]
NullishError == [nullish |-> TRUE, message |-> Undefined]

\* error?.message
OptMessage(e) == IF e.nullish THEN Undefined ELSE e.message

\* m?.includes(sub), undefined counting as false
OptIncludes(m, sub) == m # Undefined /\ Includes(m, sub)

\* a slip: every failure counts as a rate limit
IsRateLimitAlways(e) == TRUE

\* error?.message?.includes('429') || error?.message?.includes('Too Many Requests')
IsRateLimit(e) ==
    \/ OptIncludes(OptMessage(e), Code429)
    \/ OptIncludes(OptMessage(e), TooManyRequests)

\* a slip: the same wait after every attempt
DelayConstant(base, k) == base

\* baseDelay * Math.pow(2, attempt)
Delay(base, k) == base * 2^k

\* `${n}` for a small number
DigitSeq == <<"0", "1", "2", "3", "4", "5", "6", "7", "8", "9">>
RECURSIVE Decimal(_)
Decimal(n) ==
    IF n < 10 THEN <<DigitSeq[n + 1]>>
    ELSE Decimal(n \div 10) \o Decimal(n % 10)

\* m || 'Unknown error'
OrUnknown(m) == IF m = Undefined \/ m = <<>> THEN UnknownError ELSE m

\* new Error(`Failed after ${maxRetries} attempts: ${lastError?.message || 'Unknown error'}`)
FailedAfter(n, e) ==
    Thrown(FailedAfterText \o Decimal(n) \o AttemptsText \o OrUnknown(OptMessage(e)))

\* what fn's promise may settle to
Value == <<"document">>
ServerError == <<"A", "P", "I", " ", "e", "r", "r", "o", "r", ":", " ", "5", "0", "0">>
RateError == <<"A", "P", "I", " ", "e", "r", "r", "o", "r", ":", " ", "4", "2", "9">>
Errors == { NullishError, Thrown(Undefined), Thrown(<<>>), Thrown(ServerError),
            Thrown(RateError), Thrown(TooManyRequests) }

Fulfilled(v) == [ok |-> TRUE, value |-> v, error |-> NullishError]
Failed(e) == [ok |-> FALSE, value |-> Undefined, error |-> e]
Unsettled == [state |-> "pending", value |-> Undefined, error |-> NullishError]
Returns(v) == [state |-> "fulfilled", value |-> v, error |-> NullishError]
Throws(e) == [state |-> "rejected", value |-> Undefined, error |-> e]

MaxRetriesBound == 4
BaseDelays == { DefaultBaseDelay, 1 }

RetryIdle ==
    /\ maxRetries = DefaultMaxRetries
    /\ baseDelay = DefaultBaseDelay
    /\ attempt = 0
    /\ lastError = NullishError
    /\ fnLog = <<>>
    /\ delays = <<>>
    /\ rpc = "idle"
    /\ settled = Unsettled

\* attempt < maxRetries at the head of the loop: fn() is called and awaited,
\* or the loop is left and the function throws 'Failed after ...'
LoopHead(k) ==
    IF k < maxRetries
    THEN /\ rpc' = "awaitingFn"
         /\ settled' = settled
    ELSE /\ rpc' = "done"
         /\ settled' = Throws(FailedAfter(maxRetries, lastError))

\* retryWithBackoff(fn, maxRetries, baseDelay) is called
Start ==
    /\ rpc = "called"
    /\ attempt' = 0
    /\ LoopHead(0)
    /\ UNCHANGED <<maxRetries, baseDelay, lastError, fnLog, delays>>

\* fn's promise is fulfilled: return await fn()
FnFulfils ==
    /\ rpc = "awaitingFn"
    /\ fnLog' = Append(fnLog, Fulfilled(Value))
    /\ rpc' = "done"
    /\ settled' = Returns(Value)
    /\ UNCHANGED <<maxRetries, baseDelay, attempt, lastError, delays>>

\* a slip: the last attempt waits and goes round the loop too
MayRetryAlways(k, n) == k < n

\* if (attempt < maxRetries - 1)
MayRetry(k, n) == k < n - 1

\* the catch clause for error e
Caught(e) ==
    /\ lastError' = e
    /\ IF IsRateLimit(e) /\ MayRetry(attempt, maxRetries)
       THEN /\ delays' = Append(delays, Delay(baseDelay, attempt))
            /\ rpc' = "waiting"
            /\ settled' = settled
       ELSE /\ delays' = delays
            /\ rpc' = "done"
            /\ settled' = Throws(e)

\* fn's promise is rejected
FnRejects ==
    /\ rpc = "awaitingFn"
    /\ \E e \in Errors :
        /\ fnLog' = Append(fnLog, Failed(e))
        /\ Caught(e)
    /\ UNCHANGED <<maxRetries, baseDelay, attempt>>

\* the timer of the wait fires: continue, attempt++, the head of the loop
TimerFires ==
    /\ rpc = "waiting"
    /\ attempt' = attempt + 1
    /\ LoopHead(attempt + 1)
    /\ UNCHANGED <<maxRetries, baseDelay, lastError, fnLog, delays>>
---------------------------------------------------------------------------
(* The state machine of the sanitizer: a caller hands a text to            *)
(* sanitizeMermaid, and may hand the result to it again                    *)

SanitizerIdle ==
    /\ input = <<>>
    /\ result = <<>>
    /\ again = <<>>
    /\ pc = "idle"

Init == /\ input \in Inputs
        /\ result = <<>>
        /\ again = <<>>
        /\ pc = "start"
        /\ ComponentIdle
        /\ RetryIdle

\* sanitizeMermaid(input)
Sanitize == /\ pc = "start"
            /\ result' = sanitizeMermaid(input)
            /\ pc' = "sanitized"
            /\ UNCHANGED <<input, again, componentVars, retryVars>>

\* sanitizeMermaid(sanitizeMermaid(input))
Resanitize == /\ pc = "sanitized"
              /\ again' = sanitizeMermaid(result)
              /\ pc' = "resanitized"
              /\ UNCHANGED <<input, result, componentVars, retryVars>>

Next == Sanitize \/ Resanitize

Spec == Init /\ [][Next]_vars

---------------------------------------------------------------------------
(* The state machine of the component                                      *)

ComponentInit == ComponentIdle /\ SanitizerIdle /\ RetryIdle

ComponentNext ==
    \/ Mount /\ UNCHANGED <<sanitizerVars, retryVars>>
    \/ SetChart /\ UNCHANGED <<sanitizerVars, retryVars>>
    \/ RenderFulfils /\ UNCHANGED <<sanitizerVars, retryVars>>
    \/ RenderRejects /\ UNCHANGED <<sanitizerVars, retryVars>>

ComponentSpec == ComponentInit /\ [][ComponentNext]_vars

---------------------------------------------------------------------------
(* The state machine of retryWithBackoff                                   *)

RetryInit ==
    /\ maxRetries \in 0..MaxRetriesBound
    /\ baseDelay \in BaseDelays
    /\ attempt = 0
    /\ lastError = NullishError
    /\ fnLog = <<>>
    /\ delays = <<>>
    /\ rpc = "called"
    /\ settled = Unsettled
    /\ SanitizerIdle
    /\ ComponentIdle

RetryNext ==
    \/ Start /\ UNCHANGED <<sanitizerVars, componentVars>>
    \/ FnFulfils /\ UNCHANGED <<sanitizerVars, componentVars>>
    \/ FnRejects /\ UNCHANGED <<sanitizerVars, componentVars>>
    \/ TimerFires /\ UNCHANGED <<sanitizerVars, componentVars>>

RetrySpec == RetryInit /\ [][RetryNext]_vars

---------------------------------------------------------------------------
(* The vocabulary of the properties: the lines and tokens of a text        *)

Called == pc # "start"

\* the lines of a text; the body lines are those after the first
LinesOf(t) == SplitNl(t, 1, <<>>)
BodyLinesOf(t) == Tail(LinesOf(t))

\* the tokens of a line: the pieces between the spaces that stand outside
\* double quotes
RECURSIVE TokensFrom(_, _, _, _)
TokensFrom(s, p, cur, inQuote) ==
    IF p > Len(s) THEN <<cur>>
    ELSE IF s[p] = " " /\ ~inQuote THEN <<cur>> \o TokensFrom(s, p + 1, <<>>, FALSE)
    ELSE TokensFrom(s, p + 1, Append(cur, s[p]),
                    IF s[p] = "\"" THEN ~inQuote ELSE inQuote)
TokensOf(line) == TokensFrom(line, 1, <<>>, FALSE)

\* a label of letters, digits, whitespace and hyphens
IsLabelText(c) == c \in UpperSet \cup LowerSet \cup Digits \cup {" ", "\t", "-"}

\* identifier["label"]
IsLabelledNode(t) ==
    LET n == IdRun(t, 1) IN
    /\ n >= 1
    /\ Len(t) >= n + 4
    /\ t[n + 1] = "[" /\ t[n + 2] = "\""
    /\ t[Len(t) - 1] = "\"" /\ t[Len(t)] = "]"
    /\ \A k \in (n + 3)..(Len(t) - 2) : IsLabelText(t[k])

\* a valid node token: a bare identifier or identifier["label"]
IsNodeToken(t) == IsBareId(t) \/ IsLabelledNode(t)

Delimiters == {"[", "]", "(", ")", "{", "}", "\"", "'", Backtick}
ConnectorChars == {"-", "=", ".", ">"}

\* a token that holds a connector character and is no node
IsConnectorToken(t) ==
    ~IsLabelledNode(t) /\ \E k \in DOMAIN t : t[k] \in ConnectorChars

CanonicalArrows == {SolidArrow, ThickArrow, DottedArrow}

\* a line that begins, in any letter case, with graph or flowchart and
\* whitespace
LooksLikeHeader(l) ==
    \/ StartsWithAtCI(l, 1, GraphKw) /\ Len(l) >= 6 /\ IsWs(l[6])
    \/ StartsWithAtCI(l, 1, FlowchartKw) /\ Len(l) >= 10 /\ IsWs(l[10])

\* a grouping-marker line: 'subgraph ...', 'end' or 'endsubgraph', in any
\* letter case
IsGroupingMarkerLine(l) ==
    \/ StartsWithAtCI(l, 1, SubgraphKw) /\ (Len(l) = 8 \/ IsWs(l[9]))
    \/ ToLowerCase(l) = EndKw
    \/ ToLowerCase(l) = EndsubgraphKw

\* the lines of the input once fences, grouping keywords and malformed
\* arrows are rewritten, trimmed, the blank ones dropped
PreLines(inp) == SplitLines(CollapseArrows(RemoveGrouping(StripFences(inp))))

---------------------------------------------------------------------------
(* C1  No orphan edges: on every body line of the result, every connector  *)
(* token has a valid node token right before it and right after it.        *)
(* The code pushes whatever parts are left (line 87), so 'A -->' is        *)
(* emitted as it stands.                                                   *)

NoOrphanOnLine(toks) ==
    \A k \in DOMAIN toks :
        IsConnectorToken(toks[k]) =>
            /\ k > 1 /\ IsNodeToken(toks[k - 1])
            /\ k < Len(toks) /\ IsNodeToken(toks[k + 1])

NoOrphanEdges ==
    Called => \A k \in DOMAIN BodyLinesOf(result) :
                  NoOrphanOnLine(TokensOf(BodyLinesOf(result)[k]))

---------------------------------------------------------------------------
(* C2  As claimed: the first line of a non-empty result is 'graph TD' and  *)
(* no other line is a header line.                                         *)

HeaderAlwaysGraphTD ==
    (Called /\ result # <<>>) =>
        /\ LinesOf(result)[1] = GraphTD
        /\ \A k \in DOMAIN BodyLinesOf(result) : ~LooksLikeHeader(BodyLinesOf(result)[k])

(* C2  As amended: the first line of a non-empty result is a header line:  *)
(* the first line of the rewritten input kept as it stands when it begins, *)
(* in any letter case, with graph or flowchart and whitespace, 'graph TD'  *)
(* otherwise; any other line that begins that way is an edge line whose    *)
(* first node is the bare identifier graph or flowchart.                   *)

EdgeFromKeywordNode(toks) ==
    /\ Len(toks) >= 2
    /\ ToLowerCase(toks[1]) \in {GraphKw, FlowchartKw}
    /\ toks[2] \in CanonicalArrows \cup {OpenLink}

\* first is the first line of the result, pre the lines of the rewritten input
HeaderIsFrom(first, pre) ==
    /\ LooksLikeHeader(first)
    /\ first = GraphTD \/ (pre # <<>> /\ first = pre[1])
    /\ (pre # <<>> /\ LooksLikeHeader(pre[1])) => first = pre[1]

HeaderKeptOrGraphTD ==
    (Called /\ result # <<>>) =>
        /\ HeaderIsFrom(LinesOf(result)[1], PreLines(input))
        /\ \A k \in DOMAIN BodyLinesOf(result) :
               LooksLikeHeader(BodyLinesOf(result)[k])
                   => EdgeFromKeywordNode(TokensOf(BodyLinesOf(result)[k]))

\* a header other than 'graph TD' was kept, above at least one body line
HeaderKeptWitness ==
    /\ pc = "sanitized"
    /\ Len(LinesOf(result)) >= 2
    /\ PreLines(input) # <<>>
    /\ LinesOf(result)[1] # GraphTD
    /\ LinesOf(result)[1] = PreLines(input)[1]

---------------------------------------------------------------------------
(* C3  Totality: sanitizeMermaid returns a string for every input and      *)
(* throws nothing.                                                         *)

AlwaysReturnsString ==
    /\ Called => IsString(result)
    /\ pc = "resanitized" => IsString(again)

\* an input of whitespace alone was sanitized: no line is left, lines[0] is
\* undefined
BlankInputWitness ==
    /\ pc = "sanitized"
    /\ input # <<>> /\ Trim(input) = <<>>
    /\ result = GraphTD

---------------------------------------------------------------------------
(* C4  An input with no header line, none of whose body lines survives as  *)
(* a valid node or edge, yields the empty string.  The code pushes         *)
(* 'graph TD' before it looks at any line, so its result is never empty    *)
(* for a non-empty input.                                                  *)

\* one node, or nodes joined by connectors, a node at both ends
IsValidBodyLine(toks) ==
    /\ Len(toks) % 2 = 1
    /\ \A k \in DOMAIN toks :
           IF k % 2 = 1 THEN IsNodeToken(toks[k])
           ELSE toks[k] \in CanonicalArrows \cup {OpenLink}

NoHeaderNothingValid ==
    /\ ~(PreLines(input) # <<>> /\ LooksLikeHeader(PreLines(input)[1]))
    /\ \A k \in DOMAIN BodyLinesOf(result) :
           ~IsValidBodyLine(TokensOf(BodyLinesOf(result)[k]))

EmptyWhenNothingSurvives ==
    (Called /\ NoHeaderNothingValid) => result = <<>>

---------------------------------------------------------------------------
(* C5  Idempotence: sanitizing a result returns it unchanged.              *)

Idempotent == pc = "resanitized" => again = result

---------------------------------------------------------------------------
(* C6  No line of the result is a grouping-marker line.                    *)

NoGroupingMarkerLine ==
    Called => \A k \in DOMAIN LinesOf(result) : ~IsGroupingMarkerLine(LinesOf(result)[k])

\* the input had a grouping-marker line, and body lines came out
GroupingRemovedWitness ==
    /\ pc = "sanitized"
    /\ \E k \in DOMAIN LinesOf(input) : IsGroupingMarkerLine(Trim(LinesOf(input)[k]))
    /\ Len(LinesOf(result)) >= 2

---------------------------------------------------------------------------
(* C7  As claimed: every connector token on a body line of the result is   *)
(* '-->', '==>' or '-.->'.                                                 *)

ConnectorsAmong(forms) ==
    Called => \A k \in DOMAIN BodyLinesOf(result) :
                  \A j \in DOMAIN TokensOf(BodyLinesOf(result)[k]) :
                      IsConnectorToken(TokensOf(BodyLinesOf(result)[k])[j])
                          => TokensOf(BodyLinesOf(result)[k])[j] \in forms

---------------------------------------------------------------------------
(* C8  'A ---->> B' and its like (dashes, then repeated '>') come out as   *)
(* the one edge 'A --> B'.  /(-+>)+/ stops at the first '>', the second    *)
(* '>' stays with B and the two are dropped together.                      *)

IsGarbledSolidEdge(inp) ==
    \E d \in 1..Len(inp), g \in 1..Len(inp) :
        inp = <<"A", " ">> \o Repeat("-", d) \o Repeat(">", g) \o <<" ", "B">>

EdgeAB == GraphTD \o <<"\n", "A", " ">> \o SolidArrow \o <<" ", "B">>

GarbledArrowCollapses ==
    (Called /\ IsGarbledSolidEdge(input)) => result = EdgeAB

---------------------------------------------------------------------------
(* C9  Every labelled node token on a body line of the result is           *)
(* identifier["label"], the label of letters, digits, whitespace and       *)
(* hyphens: a token that holds a quote, bracket, parenthesis or brace is   *)
(* of that form.                                                           *)

HasDelimiter(t) == \E k \in DOMAIN t : t[k] \in Delimiters

LabelsWellFormed ==
    Called => \A k \in DOMAIN BodyLinesOf(result) :
                  \A j \in DOMAIN TokensOf(BodyLinesOf(result)[k]) :
                      HasDelimiter(TokensOf(BodyLinesOf(result)[k])[j])
                          => IsLabelledNode(TokensOf(BodyLinesOf(result)[k])[j])

\* the label with embedded quotes came out without them
QuotedLabelWitness ==
    /\ pc = "sanitized"
    /\ input = ScenarioQuote
    /\ BodyLinesOf(result) = << <<"A", "[", "\"", "S", "a", "y", " ", "h", "i", "\"", "]">> >>

---------------------------------------------------------------------------
(* C10  A diagram already in the canonical dialect comes out unchanged.    *)
(* The re-check of line 50 drops every line whose first identifier begins  *)
(* with end or subgraph.                                                   *)

\* one labelled node, or nodes joined by canonical arrows with single spaces
IsCanonicalLine(toks) ==
    /\ Len(toks) % 2 = 1
    /\ Len(toks) = 1 => IsLabelledNode(toks[1])
    /\ \A k \in DOMAIN toks :
           IF k % 2 = 1 THEN IsNodeToken(toks[k]) ELSE toks[k] \in CanonicalArrows

IsCanonical(inp) ==
    /\ inp # <<>>
    /\ LinesOf(inp)[1] = GraphTD
    /\ \A k \in DOMAIN BodyLinesOf(inp) : IsCanonicalLine(TokensOf(BodyLinesOf(inp)[k]))

CanonicalUnchanged == (Called /\ IsCanonical(input)) => result = input

---------------------------------------------------------------------------
(* C11  Whenever the component shows its error panel, the panel holds one  *)
(* of the fixed fault messages and sanitizeMermaid(chart), not chart as    *)
(* it was given; the message of a render rejection is there only after     *)
(* the engine was called.                                                  *)

FaultMessages == { RenderFault, SetupFault }

ErrorPanelShowsSanitized ==
    (mounted /\ view.panel = "error") =>
        /\ view.message \in FaultMessages
        /\ view.message = error
        /\ view.debug = sanitizeMermaid(chart)
        /\ (error = RenderFault => renderCalls # {})

\* a rejected render of a fenced chart: the panel's text differs from chart
RejectedPanelWitness ==
    /\ lastEvent = "rejected"
    /\ view.panel = "error"
    /\ view.message = RenderFault
    /\ chart = ScenarioFenced
    /\ view.debug # chart

---------------------------------------------------------------------------
(* C12  A failure of the rendering step is contained: after a rejected     *)
(* render call, or a throw during the setup, the component is in the       *)
(* error state with the fixed message of that failure, the error panel is  *)
(* what a non-empty chart shows, and no exception has left the component.  *)

FailureContained ==
    /\ ~escaped
    /\ lastEvent = "rejected" => error = RenderFault
    /\ lastEvent = "setupThrew" => error = SetupFault
    /\ (lastEvent \in {"rejected", "setupThrew"} /\ ~IsFalsy(chart)) => view.panel = "error"

\* the engine threw during the setup
SetupThrewWitness ==
    /\ lastEvent = "setupThrew"
    /\ error = SetupFault
    /\ view.panel = "error"
    /\ pending = <<>>

---------------------------------------------------------------------------
(* C13  With an empty or absent chart nothing runs and nothing shows:      *)
(* sanitizeMermaid is never called for such a chart, the engine is never   *)
(* invoked for one, and while chart is empty or absent no panel is shown.  *)

EmptyChartSkipsAll ==
    /\ \A c \in sanitizeCalls : ~IsFalsy(c)
    /\ \A r \in renderCalls : ~IsFalsy(r.chart)
    /\ (mounted /\ IsFalsy(chart)) => (view.panel = "none" /\ containerRef = Null)

\* the chart became empty after a render was started for an earlier chart
EmptyChartWitness ==
    /\ mounted
    /\ chart = <<>>
    /\ lastEvent = "effectSkipped"
    /\ renderCalls # {}

---------------------------------------------------------------------------
(* C14  A non-empty chart of which nothing is worth rendering (no header,  *)
(* no body line that survives as a valid node or edge: the case in which   *)
(* sanitizeMermaid is to return the empty string) is treated like no       *)
(* diagram: the engine is not invoked for it.  The return of line 100 is   *)
(* there, but sanitizeMermaid never returns the empty string for a         *)
(* non-empty chart (C4), so the engine is handed 'graph TD\nA -->'.        *)

TotalLoss(c, clean) ==
    /\ ~IsFalsy(c)
    /\ ~(PreLines(c) # <<>> /\ LooksLikeHeader(PreLines(c)[1]))
    /\ \A k \in DOMAIN BodyLinesOf(clean) : ~IsValidBodyLine(TokensOf(BodyLinesOf(clean)[k]))

---------------------------------------------------------------------------
(* C15  retryWithBackoff: fn is invoked at most maxRetries times; the      *)
(* k-th wait (k from 0) is baseDelay * 2^k, follows a rate-limit failure   *)
(* of attempt k < maxRetries - 1, and precedes the next invocation; a      *)
(* success is the last invocation and its value is returned.               *)

MentionsRateLimit(e) ==
    /\ ~e.nullish
    /\ e.message # Undefined
    /\ (Includes(e.message, Code429) \/ Includes(e.message, TooManyRequests))

RetriesWithBackoff ==
    /\ Len(fnLog) <= maxRetries
    /\ Len(fnLog) <= Len(delays) + 1
    /\ \A k \in DOMAIN delays :
          /\ delays[k] = baseDelay * 2^(k - 1)
          /\ k - 1 < maxRetries - 1
          /\ k \in DOMAIN fnLog /\ ~fnLog[k].ok /\ MentionsRateLimit(fnLog[k].error)
    /\ \A k \in DOMAIN fnLog :
          (~fnLog[k].ok /\ MentionsRateLimit(fnLog[k].error) /\ k - 1 < maxRetries - 1)
              => k \in DOMAIN delays
    /\ \A k \in DOMAIN fnLog :
          fnLog[k].ok => (k = Len(fnLog) /\ rpc = "done" /\ settled = Returns(fnLog[k].value))
    /\ (maxRetries = DefaultMaxRetries /\ baseDelay = DefaultBaseDelay)
          => delays \in { <<>>, <<1000>>, <<1000, 2000>> }

\* the defaults: two rate-limited attempts, two waits, success at the third
BackoffWitness ==
    /\ maxRetries = DefaultMaxRetries
    /\ baseDelay = DefaultBaseDelay
    /\ delays = <<1000, 2000>>
    /\ Len(fnLog) = 3
    /\ settled = Returns(Value)

---------------------------------------------------------------------------
(* C16  'graph TD', then id1[L1]-->id2[L2] with labels of letters, digits  *)
(* and spaces, comes out as the header and the one line                    *)
(* id1["L1"] --> id2["L2"].  A line whose first identifier begins with     *)
(* end is dropped by the re-check of line 50.                              *)

QuotedNode(id, l) == id \o <<"[", "\"">> \o l \o <<"\"", "]">>

HeaderEdgeNormalized ==
    Called =>
        \A a \in EdgeIds, b \in EdgeIds, l1 \in EdgeLabels, l2 \in EdgeLabels :
            input = HeaderEdge(a, l1, b, l2) =>
                result = GraphTD \o <<"\n">> \o QuotedNode(a, l1) \o <<" ">> \o SolidArrow
                             \o <<" ">> \o QuotedNode(b, l2)

---------------------------------------------------------------------------
(* C17  Valid edges between 'subgraph <label>' and 'end': the result has   *)
(* no grouping line and has every enclosed edge, in order.  An edge whose  *)
(* first identifier begins with end is dropped by line 50.                 *)

EdgeLine(e) == e.from \o <<" ">> \o e.arrow \o <<" ">> \o e.to

GroupedEdgesRetained ==
    Called =>
        \A l \in GroupLabels, es \in GroupedEdgeSeqs :
            input = Grouped(l, es) =>
                BodyLinesOf(result) = [k \in DOMAIN es |-> EdgeLine(es[k])]

---------------------------------------------------------------------------
(* C18  A node written as an identifier and a label in any shape           *)
(* delimiter, doubled or not, comes out as identifier["label"].  A node    *)
(* whose identifier begins with end is dropped by line 50.                 *)

ShapeCanonicalized ==
    Called =>
        \A id \in ShapeIds, sh \in Shapes, l \in ShapeLabels :
            input = ShapedNode(id, sh, l) =>
                result = GraphTD \o <<"\n">> \o QuotedNode(id, l)

---------------------------------------------------------------------------
(* C19  sanitizeMermaid('') is ''.                                         *)

EmptyGivesEmpty == (Called /\ input = <<>>) => result = <<>>

EmptyInputWitness == pc = "sanitized" /\ input = <<>> /\ result = <<>>

---------------------------------------------------------------------------
(* C20  'A <c> B' with <c> a run of solid arrows has the line 'A --> B'    *)
(* in its result, with a run of thick arrows 'A ==> B', with a run of      *)
(* dotted arrows 'A -.-> B'.                                               *)

HasLine(t, l) == \E k \in DOMAIN LinesOf(t) : LinesOf(t)[k] = l

SolidRunEdges == { EdgeWith(c) : c \in RunsOf(SolidUnits) }
ThickRunEdges == { EdgeWith(c) : c \in RunsOf(ThickUnits) }
DottedRunEdges == { EdgeWith(c) : c \in RunsOf(DottedUnits) }

ConnectorRunsCollapse ==
    Called =>
        /\ input \in SolidRunEdges => HasLine(result, EdgeWith(SolidArrow))
        /\ input \in ThickRunEdges => HasLine(result, EdgeWith(ThickArrow))
        /\ input \in DottedRunEdges => HasLine(result, EdgeWith(DottedArrow))

\* a run of two dotted arrows of different shapes has collapsed
DottedRunWitness ==
    /\ pc = "sanitized"
    /\ input = EdgeWith(<<"-", ".", "-", ">", "-", "-", ".", ".", "-", ">">>)
    /\ result = GraphTD \o <<"\n">> \o EdgeWith(DottedArrow)

---------------------------------------------------------------------------
(* C21  An edge between two valid nodes, written with no space or with any *)
(* whitespace around '-->', '==>' or '-.->', comes out as 'A c B' with one *)
(* space on each side.  Line 54 looks for '===>', which line 30 has        *)
(* already collapsed, so 'A==>B' is never split and is dropped.            *)

SpacingNormalized ==
    Called =>
        \A a \in { <<"A">>, NodeXY }, gl \in Gaps, gr \in Gaps,
           c \in { SolidArrow, ThickArrow, DottedArrow } :
            input = SpacedEdge(a, gl, c, gr, <<"B">>) =>
                result = UnderHeader(a \o <<" ">> \o c \o <<" ", "B">>)

---------------------------------------------------------------------------
(* C22  A text between code fences, with or without a language tag, gives  *)
(* the result of the text itself.  Only the tag mermaid is removed, and    *)
(* the fenced empty text is not empty, so it comes out as 'graph TD'.      *)

FencesDoNotMatter ==
    Called =>
        \A tag \in FenceTags, d \in FenceBodies :
            input = Fenced(tag, d) => result = sanitizeMermaid(d)

---------------------------------------------------------------------------
(* C23  The re-check of line 50 skips grouping-marker lines only: a valid  *)
(* line whose first identifier begins with end or subgraph comes out like  *)
(* any other.  The test has no word boundary.                              *)

KeywordPrefixKept ==
    Called =>
        \A l \in KeywordPrefixLines :
            input \in { l, UnderHeader(l) } => result = UnderHeader(l)

---------------------------------------------------------------------------
(* C24  A line that is one valid node, bare or labelled, comes out as a    *)
(* line of its own, also after an edge line that does not survive whole.   *)
(* A node whose identifier begins with end is dropped by line 50.          *)

StandaloneNodesKept ==
    Called =>
        /\ \A id \in BareIds :
              input \in { id, AfterDangling(id) } => HasLine(result, id)
        /\ \A id \in ShapeIds, sh \in Shapes, l \in ShapeLabels :
              input = AfterDangling(ShapedNode(id, sh, l)) => HasLine(result, QuotedNode(id, l))

---------------------------------------------------------------------------
(* C28  The removal of a grouping-begin line leaves the line after it      *)
(* alone, also when the begin line has no label.  In /subgraph\s+[^\n]*/   *)
(* the \s+ then matches the line break and [^\n]* the whole next line.     *)

FollowerUnaffected ==
    Called =>
        \A b \in BeginLines, l \in FollowerLines :
            input = AfterBegin(b, l) => result = UnderHeader(l)

---------------------------------------------------------------------------
(* C30  Line structure and order: the body lines of the result come each   *)
(* from one line of the input, different ones from different lines, in     *)
(* the order of the input; a body line comes from an input line when its   *)
(* letters, digits and underscores are found there in that order.          *)

IdChars(s) == SelectSeq(s, IsIdChar)

RECURSIVE IsSubsequence(_, _)
IsSubsequence(a, b) ==
    IF a = <<>> THEN TRUE
    ELSE IF b = <<>> THEN FALSE
    ELSE IF Head(a) = Head(b) THEN IsSubsequence(Tail(a), Tail(b))
    ELSE IsSubsequence(a, Tail(b))

RECURSIVE ComeInOrderFrom(_, _)
ComeInOrderFrom(outs, ins) ==
    IF outs = <<>> THEN TRUE
    ELSE IF ins = <<>> THEN FALSE
    ELSE IF IsSubsequence(IdChars(Head(outs)), Head(ins))
         THEN ComeInOrderFrom(Tail(outs), Tail(ins))
    ELSE ComeInOrderFrom(outs, Tail(ins))

LineStructureKept ==
    (Called /\ result # <<>>) => ComeInOrderFrom(BodyLinesOf(result), LinesOf(input))

\* two different lines came out, in the order they went in
TwoLinesWitness ==
    /\ pc = "sanitized"
    /\ input = UnderHeader(NodeXY \o <<"\n">> \o <<"A", " ">> \o SolidArrow \o <<" ", "A">>)
    /\ BodyLinesOf(result) = << NodeXY, <<"A", " ">> \o SolidArrow \o <<" ", "A">> >>

---------------------------------------------------------------------------
(* C25  A failure of fn that is no rate-limit error is rethrown at once:   *)
(* it is the last invocation, no wait follows it, and retryWithBackoff     *)
(* rejects with it, whatever the attempt.                                  *)

OtherErrorsRethrown ==
    \A k \in DOMAIN fnLog :
        (~fnLog[k].ok /\ ~MentionsRateLimit(fnLog[k].error)) =>
            /\ k = Len(fnLog)
            /\ Len(delays) = k - 1
            /\ rpc = "done"
            /\ settled = Throws(fnLog[k].error)

\* a server error at the second attempt, after one rate-limited attempt
RethrownWitness ==
    /\ Len(fnLog) = 2
    /\ MentionsRateLimit(fnLog[1].error)
    /\ fnLog[2] = Failed(Thrown(ServerError))
    /\ settled = Throws(Thrown(ServerError))
    /\ delays = <<baseDelay>>

---------------------------------------------------------------------------
(* C29  For maxRetries >= 1 a rejection of retryWithBackoff is the error   *)
(* of the last invocation of fn, also when every attempt was rate-limited; *)
(* 'Failed after N attempts: ...' is never what it rejects with.           *)

IsFailedAfter(e) ==
    /\ ~e.nullish
    /\ e.message # Undefined
    /\ StartsWithAt(e.message, 1, FailedAfterText)

---------------------------------------------------------------------------
(* C26  Recovery: after a render rejection, a change of chart to another   *)
(* non-empty text clears the error (the effect's setError(null) runs and   *)
(* the render is started for the new chart), so that once nothing is in    *)
(* flight the error of the earlier chart is gone.  In the error state the  *)
(* container div is not rendered, containerRef.current is null, and the    *)
(* guard of line 96 keeps the effect from doing anything.                  *)

ErrorClearedByNewChart ==
    (mounted /\ lastEvent = "effectSkipped" /\ pending = <<>>
       /\ ~IsFalsy(chart) /\ errorOf # chart)
        => error # RenderFault

---------------------------------------------------------------------------
(* C27  When chart changed while a render was in flight, then once every   *)
(* render has settled the container holds the SVG of the latest chart, or  *)
(* the error is that of the latest chart.  No callback checks which chart  *)
(* its render was started for.                                             *)

LatestChartOnly ==
    (mounted /\ raced /\ pending = <<>> /\ ~IsFalsy(chart)) =>
        IF error = Null THEN innerHTML = Svg(sanitizeMermaid(chart))
        ELSE errorOf = chart

=============================================================================
